---- MODULE Spec2Model ----
(***************************************************************************)
(* Model of mirage/catalogs/create_catalog.py: the 2MASS point-source      *)
(* query, the Besancon population-model query, the scene presets and the   *)
(* two helpers filter_bad_ra_dec and generate_ra_dec.                      *)
(*                                                                         *)
(* Angles are integers counted in ticks, TicksPerArcsec ticks to the       *)
(* arcsecond, so that half a box width and a random fraction of a box      *)
(* width are whole numbers.  np.random.random() draws from [0, 1); a draw  *)
(* is modelled as r / RandSteps with r in 0 .. RandSteps - 1.              *)
(* Besancon magnitudes and colours are integers in tenths of a magnitude.  *)
(* 2MASS magnitudes are only copied, never computed with: they are the     *)
(* decimal pairs [m, e] standing for m * 10^e, which lets the fill value   *)
(* 1e20 be written exactly.                                                *)
(***************************************************************************)
EXTENDS Integers, Sequences, FiniteSets, TLC

VARIABLES
    pc,            \* position of the current call: idle, irsa_wait, bes_wait,
                   \* returned, raised, beyond_bound
    fn,            \* the function being called ("none" when idle)
    args,          \* the arguments of the current call, as passed in
    ROW_LIMIT,     \* Irsa.ROW_LIMIT, process-wide state of the shared Irsa client
    requests,      \* the requests this call has sent to its remote service
    held,          \* number of sources the 2MASS service holds inside the box
    query_table,   \* the table the call works on (Irsa result, or the helper's input)
    model,         \* the table returned by Besancon.query
    cat,           \* the catalog returned by the call
    err,           \* the exception raised to the caller ("none" when there is none)
    position_mask, \* return value of filter_bad_ra_dec
    ra_list,       \* first return value of generate_ra_dec (besancon's ra_values)
    dec_list       \* second return value of generate_ra_dec (besancon's dec_values)

vars == <<pc, fn, args, ROW_LIMIT, requests, held, query_table, model, cat, err,
          position_mask, ra_list, dec_list>>

-----------------------------------------------------------------------------
(* Bounds of the model *)

\* largest Irsa result table whose rows the model spells out
MaxRows == 2
\* largest number of stars in a Besancon result
MaxStars == 2
\* number of distinct values a random draw from [0, 1) can take
RandSteps == 2

(* Program constants *)

\* Irsa.ROW_LIMIT = 1000000
ROW_LIMIT_VALUE == 1000000
\* u.arcsec against u.deg: 3600 arcseconds to the degree
ArcsecPerDeg == 3600

TicksPerArcsec == 2 * RandSteps

Min(a, b) == IF a <= b THEN a ELSE b

\* x * u.deg, in ticks
Deg(x) == x * ArcsecPerDeg * TicksPerArcsec
\* x * u.arcsec, in ticks
Arcsec(x) == x * TicksPerArcsec

-----------------------------------------------------------------------------
(* Inputs *)

\* sky positions (degrees) the calls are made with
Positions == {<<45, 0>>, <<45, 85>>, <<266, -29>>}
\* box widths (arcseconds) the calls are made with
BoxWidths == {2, 4}
\* values of the coords keyword, recognised and not
CoordModes == {"ra_dec", "galactic", "equatorial"}
\* values Irsa.ROW_LIMIT can have before the first call: astroquery's default
\* and a larger limit set by other code
RowLimitsBefore == {500, 2000000}
\* numbers of sources the 2MASS service can hold inside the box
HeldCounts == (0 .. MaxRows) \cup {ROW_LIMIT_VALUE + 1}

MagKeys == {"j_m", "h_m", "k_m"}
KeyNo(key) == CASE key = "j_m" -> 1 [] key = "h_m" -> 2 [] key = "k_m" -> 3

\* the magnitudes of a source that can be missing together
MagMasks == {{}, {"j_m"}, {"h_m", "k_m"}, MagKeys}

\* the masks of one row: of its RA, of its Dec, of its magnitudes
RowMasks == [ra_masked : BOOLEAN, dec_masked : BOOLEAN, mag_masked : MagMasks]

\* The i-th source of an Irsa result: its data are fixed by i (so that the
\* sources are told apart), the masks of its entries are free.
IrsaRow(i, masks) ==
    [ra |-> 10 + i, ra_masked |-> masks.ra_masked,
     dec |-> 20 + i, dec_masked |-> masks.dec_masked,
     mag |-> [key \in MagKeys |-> [m |-> 100 + 10 * i + KeyNo(key), e |-> -1]],
     mag_masked |-> masks.mag_masked]

\* the Irsa result tables of n rows
IrsaTables(n) ==
    { [i \in 1 .. n |-> IrsaRow(i, masks[i])] : masks \in [1 .. n -> RowMasks] }

\* rows of a Besancon result: V and the four colours, in tenths of a magnitude
ModelRows ==
    { [V |-> 150, VK |-> 20, JK |-> 10, JH |-> 5, JL |-> 15],
      [V |-> 183, VK |-> 31, JK |-> -2, JH |-> 4, JL |-> -7] }

ModelTables == UNION { [1 .. n -> ModelRows] : n \in 0 .. MaxStars }

\* sequences of n random draws
Draws(n) == [1 .. n -> 0 .. RandSteps - 1]

NoCat == [ra |-> <<>>, dec |-> <<>>, magnitudes |-> <<>>, made |-> FALSE]

-----------------------------------------------------------------------------
(* PointSourceCatalog (mirage.catalogs.catalog_generator) *)

\* PointSourceCatalog(ra=..., dec=...): the positions, and no magnitude column yet
PointSourceCatalog(ra, dec) ==
    [ra |-> ra, dec |-> dec, magnitudes |-> <<>>, made |-> TRUE]

\* cat.add_magnitude_column(data, instrument=..., filter_name=...): the column is
\* stored as given under the (instrument, filter) pair
add_magnitude_column(c, data, instrument, filter_name) ==
    [c EXCEPT !.magnitudes = (<<instrument, filter_name>> :> data) @@ c.magnitudes]

-----------------------------------------------------------------------------
(* Helpers *)

\* data[mask]: numpy boolean-mask indexing, the entries of data where mask is true
RECURSIVE MaskSelect(_, _)
MaskSelect(data, mask) ==
    IF data = <<>> THEN <<>>
    ELSE IF Head(mask) THEN <<Head(data)>> \o MaskSelect(Tail(data), Tail(mask))
         ELSE MaskSelect(Tail(data), Tail(mask))

\* table[name].data.data: the stored values of a position column, masked or not
ColumnData(table, name) ==
    [i \in 1 .. Len(table) |-> IF name = "ra" THEN table[i].ra ELSE table[i].dec]

\* table[name].data.mask
ColumnMask(table, name) ==
    [i \in 1 .. Len(table) |->
        IF name = "ra" THEN table[i].ra_masked ELSE table[i].dec_masked]

\* the fill value of a masked magnitude: 1e20
fill_value == [m |-> 1, e |-> 20]

\* table[key].filled().data: the column with the fill value in its masked entries
Filled(table, key) ==
    [i \in 1 .. Len(table) |->
        IF key \in table[i].mag_masked THEN fill_value ELSE table[i].mag[key]]

\* filter_bad_ra_dec with the two column masks joined by | instead of &
filter_bad_ra_dec_Or(table_data) ==
    [i \in 1 .. Len(table_data) |->
        ~ColumnMask(table_data, "ra")[i] \/ ~ColumnMask(table_data, "dec")[i]]

filter_bad_ra_dec(table_data) ==
    LET ra_mask == [i \in 1 .. Len(table_data) |-> ~ColumnMask(table_data, "ra")[i]]
        dec_mask == [i \in 1 .. Len(table_data) |-> ~ColumnMask(table_data, "dec")[i]]
        position_mask_ == [i \in 1 .. Len(table_data) |-> ra_mask[i] /\ dec_mask[i]]
    IN  position_mask_

\* np.random.random(number_of_stars) * delta + low, the draws being draws[i] / RandSteps
Scaled(number_of_stars, draws, delta, low) ==
    [i \in 1 .. number_of_stars |-> (draws[i] * delta) \div RandSteps + low]

\* generate_ra_dec with delta_ra used for the Dec values too
generate_ra_dec_OneDelta(number_of_stars, ra_min, ra_max, dec_min, dec_max, ra_draws, dec_draws) ==
    LET delta_ra == ra_max - ra_min
    IN  <<Scaled(number_of_stars, ra_draws, delta_ra, ra_min),
          Scaled(number_of_stars, dec_draws, delta_ra, dec_min)>>

\* generate_ra_dec with the draws of its two calls of np.random.random made explicit
generate_ra_dec(number_of_stars, ra_min, ra_max, dec_min, dec_max, ra_draws, dec_draws) ==
    LET delta_ra == ra_max - ra_min
        ra_list_ == Scaled(number_of_stars, ra_draws, delta_ra, ra_min)
        delta_dec == dec_max - dec_min
        dec_list_ == Scaled(number_of_stars, dec_draws, delta_dec, dec_min)
    IN  <<ra_list_, dec_list_>>

-----------------------------------------------------------------------------
(* get_2MASS_ptsrc_catalog *)

\* lines 29-40: the catalog built from the table the Irsa query returned
TwoMassCatalog(table) ==
    LET radec_mask == filter_bad_ra_dec(table)
        cat0 == PointSourceCatalog(MaskSelect(ColumnData(table, "ra"), radec_mask),
                                   MaskSelect(ColumnData(table, "dec"), radec_mask))
        cat1 == add_magnitude_column(cat0, Filled(table, "j_m"), "2MASS", "j_m")
        cat2 == add_magnitude_column(cat1, Filled(table, "h_m"), "2MASS", "h_m")
        cat3 == add_magnitude_column(cat2, Filled(table, "k_m"), "2MASS", "k_m")
    IN  cat3

\* the request Irsa.query_region sends: the box and the client's row limit
IrsaRequest(ra, dec, box_width, row_limit) ==
    [service |-> "Irsa", ra_dec_string |-> <<ra, dec>>, catalog |-> "fp_psc",
     spatial |-> "Box", width |-> Arcsec(box_width), outrows |-> row_limit]

\* number of rows the service returns for a request
RowsReturned(n_held, request) == Min(n_held, request.outrows)

\* lines 22-27, up to the request being sent
Call2MASS(ra, dec, box_width, n_held) ==
    /\ pc = "idle"
    /\ pc' = "irsa_wait"
    /\ fn' = "get_2MASS_ptsrc_catalog"
    /\ args' = [ra |-> ra, dec |-> dec, box_width |-> box_width]
    /\ ROW_LIMIT' = ROW_LIMIT_VALUE
    /\ requests' = Append(requests, IrsaRequest(ra, dec, box_width, ROW_LIMIT'))
    /\ held' = n_held
    /\ UNCHANGED <<query_table, model, cat, err, position_mask, ra_list, dec_list>>

\* the query returns a table; lines 29-40 build the catalog from it
IrsaRespond ==
    /\ pc = "irsa_wait"
    /\ RowsReturned(held, requests[1]) <= MaxRows
    /\ \E table \in IrsaTables(RowsReturned(held, requests[1])) :
        /\ query_table' = table
        /\ cat' = TwoMassCatalog(table)
    /\ pc' = "returned"
    /\ UNCHANGED <<fn, args, ROW_LIMIT, requests, held, model, err, position_mask,
                   ra_list, dec_list>>

\* the query returns more rows than the model spells out: the call is not
\* followed any further
IrsaRespondBeyond ==
    /\ pc = "irsa_wait"
    /\ RowsReturned(held, requests[1]) > MaxRows
    /\ pc' = "beyond_bound"
    /\ UNCHANGED <<fn, args, ROW_LIMIT, requests, held, query_table, model, cat, err,
                   position_mask, ra_list, dec_list>>

\* IrsaFail with the failed query sent once more
IrsaFail_Retry ==
    /\ pc = "irsa_wait"
    /\ requests' = Append(requests, requests[1])
    /\ UNCHANGED <<pc, fn, args, ROW_LIMIT, held, query_table, model, cat, err,
                   position_mask, ra_list, dec_list>>

\* the query fails: nothing catches the exception
IrsaFail ==
    /\ pc = "irsa_wait"
    /\ pc' = "raised"
    /\ err' = "ServiceError"
    /\ UNCHANGED <<fn, args, ROW_LIMIT, requests, held, query_table, model, cat,
                   position_mask, ra_list, dec_list>>

-----------------------------------------------------------------------------
(* besancon *)

\* SkyCoord(ra, dec, frame='icrs').galactic: galactic longitude and latitude of an
\* equatorial position, to the nearest degree
IcrsToGalactic(ra, dec) ==
    CASE <<ra, dec>> = <<45, 0>>    -> [l |-> 177, b |-> -49]
      [] <<ra, dec>> = <<45, 85>>   -> [l |-> 126, b |-> 23]
      [] <<ra, dec>> = <<266, -29>> -> [l |-> 0, b |-> 0]

\* BesanconCoords with a plain else in place of the elif
BesanconCoords_Else(ra, dec, coords) ==
    IF coords = "ra_dec"
    THEN [bound |-> TRUE, coord1 |-> IcrsToGalactic(ra, dec).l,
          coord2 |-> IcrsToGalactic(ra, dec).b]
    ELSE [bound |-> TRUE, coord1 |-> ra, coord2 |-> dec]

\* lines 71-77: coord1 and coord2, bound only in the two branches of the if
BesanconCoords(ra, dec, coords) ==
    IF coords = "ra_dec"
    THEN LET location == IcrsToGalactic(ra, dec)
         IN  [bound |-> TRUE, coord1 |-> location.l, coord2 |-> location.b]
    ELSE IF coords = "galactic"
    THEN [bound |-> TRUE, coord1 |-> ra, coord2 |-> dec]
    ELSE [bound |-> FALSE, coord1 |-> 0, coord2 |-> 0]

\* lines 80-81: the area in square degrees, as the fraction num / den
BesanconArea(box_width) ==
    [num |-> box_width * box_width, den |-> ArcsecPerDeg * ArcsecPerDeg]

\* lines 84-87: the request Besancon.query sends
BesanconRequest(coord1, coord2, area) ==
    [service |-> "Besancon", coord1 |-> coord1, coord2 |-> coord2, smallfield |-> TRUE,
     area |-> area, colors |-> {"J-H", "J-K", "J-L", "V-K"}, retrieve_file |-> TRUE]

\* BesanconMagnitudes with H taken from K instead of J
BesanconMagnitudes_HFromK(model_) ==
    LET k_mags == [i \in 1 .. Len(model_) |-> model_[i].V - model_[i].VK]
        j_mags == [i \in 1 .. Len(model_) |-> k_mags[i] + model_[i].JK]
        h_mags == [i \in 1 .. Len(model_) |-> k_mags[i] - model_[i].JH]
        l_mags == [i \in 1 .. Len(model_) |-> j_mags[i] - model_[i].JL]
    IN  [j_mags |-> j_mags, h_mags |-> h_mags, k_mags |-> k_mags, l_mags |-> l_mags]

\* lines 90-93: the magnitudes in the four bands
BesanconMagnitudes(model_) ==
    LET k_mags == [i \in 1 .. Len(model_) |-> model_[i].V - model_[i].VK]
        j_mags == [i \in 1 .. Len(model_) |-> k_mags[i] + model_[i].JK]
        h_mags == [i \in 1 .. Len(model_) |-> j_mags[i] - model_[i].JH]
        l_mags == [i \in 1 .. Len(model_) |-> j_mags[i] - model_[i].JL]
    IN  [j_mags |-> j_mags, h_mags |-> h_mags, k_mags |-> k_mags, l_mags |-> l_mags]

\* BesanconBox with the box width taken as degrees, its unit never applied
BesanconBox_WidthInDeg(ra, dec, box_width) ==
    LET half_width == Deg(box_width) \div 2
    IN  [min_ra |-> Deg(ra) - half_width, max_ra |-> Deg(ra) + half_width,
         min_dec |-> Deg(dec) - half_width, max_dec |-> Deg(dec) + half_width]

\* lines 67-69 and 98-102: the box the positions are drawn from, in ticks
BesanconBox(ra, dec, box_width) ==
    LET ra_ == Deg(ra)
        dec_ == Deg(dec)
        box_width_ == Arcsec(box_width)
        half_width == box_width_ \div 2
    IN  [min_ra |-> ra_ - half_width, max_ra |-> ra_ + half_width,
         min_dec |-> dec_ - half_width, max_dec |-> dec_ + half_width]

\* lines 98-103: ra_values and dec_values, one position for each star
BesanconPositions(ra, dec, box_width, number_of_stars, ra_draws, dec_draws) ==
    LET box == BesanconBox(ra, dec, box_width)
    IN  generate_ra_dec(number_of_stars, box.min_ra, box.max_ra,
                        box.min_dec, box.max_dec, ra_draws, dec_draws)

\* lines 105-113: the catalog of the positions and the four magnitude columns
BesanconCatalog(ra_values, dec_values, mags) ==
    LET cat0 == PointSourceCatalog(ra_values, dec_values)
        cat1 == add_magnitude_column(cat0, mags.j_mags, "Besancon", "j")
        cat2 == add_magnitude_column(cat1, mags.h_mags, "Besancon", "h")
        cat3 == add_magnitude_column(cat2, mags.k_mags, "Besancon", "k")
        cat4 == add_magnitude_column(cat3, mags.l_mags, "Besancon", "l")
    IN  cat4

\* lines 67-87, up to the request being sent.  With coords neither 'ra_dec' nor
\* 'galactic', coord1 is unbound when line 84 reads it: Python raises
\* UnboundLocalError before Besancon.query is called.
besancon(ra, dec, box_width, coords) ==
    LET c == BesanconCoords(ra, dec, coords)
    IN  /\ pc = "idle"
        /\ fn' = "besancon"
        /\ args' = [ra |-> ra, dec |-> dec, box_width |-> box_width, coords |-> coords]
        /\ IF c.bound
           THEN /\ requests' = Append(requests, BesanconRequest(c.coord1, c.coord2,
                                                       BesanconArea(box_width)))
                /\ pc' = "bes_wait"
                /\ err' = err
           ELSE /\ requests' = requests
                /\ pc' = "raised"
                /\ err' = "UnboundLocalError"
        /\ UNCHANGED <<ROW_LIMIT, held, query_table, model, cat, position_mask,
                       ra_list, dec_list>>

CallBesancon ==
    \E p \in Positions, box_width \in BoxWidths, coords \in CoordModes :
        besancon(p[1], p[2], box_width, coords)

\* galactic_plane(box_width): longitude 45, latitude 0
galactic_plane == \E box_width \in BoxWidths : besancon(45, 0, box_width, "galactic")

\* out_of_plane(box_width): longitude 45, latitude 85
out_of_plane == \E box_width \in BoxWidths : besancon(45, 85, box_width, "galactic")

\* the model returns a table; lines 89-113 build the catalog from it
BesanconRespond ==
    /\ pc = "bes_wait"
    /\ \E model_ \in ModelTables :
        \E ra_draws \in Draws(Len(model_)), dec_draws \in Draws(Len(model_)) :
            LET mags == BesanconMagnitudes(model_)
                radec == BesanconPositions(args.ra, args.dec, args.box_width,
                                           Len(mags.k_mags), ra_draws, dec_draws)
            IN  /\ model' = model_
                /\ ra_list' = radec[1]
                /\ dec_list' = radec[2]
                /\ cat' = BesanconCatalog(radec[1], radec[2], mags)
    /\ pc' = "returned"
    /\ UNCHANGED <<fn, args, ROW_LIMIT, requests, held, query_table, err, position_mask>>

\* the query fails: nothing catches the exception
BesanconFail ==
    /\ pc = "bes_wait"
    /\ pc' = "raised"
    /\ err' = "ServiceError"
    /\ UNCHANGED <<fn, args, ROW_LIMIT, requests, held, query_table, model, cat,
                   position_mask, ra_list, dec_list>>

-----------------------------------------------------------------------------
(* The helpers called on their own *)

\* bounds (ticks) generate_ra_dec is called with
GenBounds == {-3, 0, 5}

CallFilter ==
    /\ pc = "idle"
    /\ \E n \in 0 .. MaxRows : \E table_data \in IrsaTables(n) :
        /\ args' = [table_data |-> table_data]
        /\ query_table' = table_data
        /\ position_mask' = filter_bad_ra_dec(table_data)
    /\ fn' = "filter_bad_ra_dec"
    /\ pc' = "returned"
    /\ UNCHANGED <<ROW_LIMIT, requests, held, model, cat, err, ra_list, dec_list>>

CallGenerate ==
    /\ pc = "idle"
    /\ \E number_of_stars \in 0 .. MaxStars :
       \E ra_min \in GenBounds, ra_max \in GenBounds,
          dec_min \in GenBounds, dec_max \in GenBounds :
       \E ra_draws \in Draws(number_of_stars), dec_draws \in Draws(number_of_stars) :
        /\ ra_min <= ra_max
        /\ dec_min <= dec_max
        /\ args' = [number_of_stars |-> number_of_stars, ra_min |-> ra_min,
                    ra_max |-> ra_max, dec_min |-> dec_min, dec_max |-> dec_max]
        /\ LET r == generate_ra_dec(number_of_stars, ra_min, ra_max, dec_min, dec_max,
                                    ra_draws, dec_draws)
           IN  /\ ra_list' = r[1]
               /\ dec_list' = r[2]
    /\ fn' = "generate_ra_dec"
    /\ pc' = "returned"
    /\ UNCHANGED <<ROW_LIMIT, requests, held, query_table, model, cat, err,
                   position_mask>>

-----------------------------------------------------------------------------
(* The specification *)

Get2MASS ==
    \E p \in Positions, box_width \in BoxWidths, n_held \in HeldCounts :
        Call2MASS(p[1], p[2], box_width, n_held)

\* the call is over: its catalog or its exception has gone to the caller, and the
\* next call starts afresh.  Irsa.ROW_LIMIT stays as the call left it.
Return ==
    /\ pc \in {"returned", "raised", "beyond_bound"}
    /\ pc' = "idle"
    /\ fn' = "none"
    /\ args' = <<>>
    /\ requests' = <<>>
    /\ held' = 0
    /\ query_table' = <<>>
    /\ model' = <<>>
    /\ cat' = NoCat
    /\ err' = "none"
    /\ position_mask' = <<>>
    /\ ra_list' = <<>>
    /\ dec_list' = <<>>
    /\ UNCHANGED ROW_LIMIT

Init ==
    /\ pc = "idle"
    /\ fn = "none"
    /\ args = <<>>
    /\ ROW_LIMIT \in RowLimitsBefore
    /\ requests = <<>>
    /\ held = 0
    /\ query_table = <<>>
    /\ model = <<>>
    /\ cat = NoCat
    /\ err = "none"
    /\ position_mask = <<>>
    /\ ra_list = <<>>
    /\ dec_list = <<>>

Next ==
    \/ Get2MASS
    \/ IrsaRespond
    \/ IrsaRespondBeyond
    \/ IrsaFail
    \/ CallBesancon
    \/ galactic_plane
    \/ out_of_plane
    \/ BesanconRespond
    \/ BesanconFail
    \/ CallFilter
    \/ CallGenerate
    \/ Return

Spec == Init /\ [][Next]_vars

-----------------------------------------------------------------------------
(* The claims *)

CatalogCall == fn \in {"get_2MASS_ptsrc_catalog", "besancon"}

\* the rows of a table whose RA and Dec are both present
Present(table) ==
    { i \in 1 .. Len(table) : ~table[i].ra_masked /\ ~table[i].dec_masked }

\* the index in the catalog of the i-th row of the table, a row of Present(table)
CatIndex(table, i) == Cardinality({ j \in Present(table) : j <= i })

\* C1: every catalog returned by get_2MASS_ptsrc_catalog or besancon has magnitude
\* columns of exactly the length of its RA and Dec arrays, also when rows of the
\* query result have a masked RA or Dec.
C1_ColumnsAsLongAsPositions ==
    (pc = "returned" /\ CatalogCall) =>
        /\ Len(cat.ra) = Len(cat.dec)
        /\ \A key \in DOMAIN cat.magnitudes : Len(cat.magnitudes[key]) = Len(cat.ra)

\* C2: filter_bad_ra_dec returns a mask with one entry per row, true exactly for
\* the rows with neither RA nor Dec flagged missing, and leaves the table as it was.
C2_MaskIsPresence ==
    (pc = "returned" /\ fn = "filter_bad_ra_dec") =>
        /\ Len(position_mask) = Len(args.table_data)
        /\ \A i \in 1 .. Len(args.table_data) :
              position_mask[i] <=> (~args.table_data[i].ra_masked
                                    /\ ~args.table_data[i].dec_masked)
        /\ query_table = args.table_data

C2_Witness ==
    /\ pc = "returned"
    /\ fn = "filter_bad_ra_dec"
    /\ Len(query_table) = 2
    /\ query_table[1].ra_masked
    /\ ~query_table[1].dec_masked
    /\ position_mask = <<FALSE, TRUE>>

\* C3: every RA besancon generates lies within [ra - width/2, ra + width/2] and
\* every Dec within [dec - width/2, dec + width/2], ra and dec being the arguments
\* as passed in and width the box width in degrees (both sides doubled, in ticks).
C3_PositionsInsideBox ==
    (pc = "returned" /\ fn = "besancon") =>
        /\ cat.ra = ra_list
        /\ cat.dec = dec_list
        /\ \A i \in 1 .. Len(ra_list) :
              /\ 2 * ra_list[i] >= 2 * Deg(args.ra) - Arcsec(args.box_width)
              /\ 2 * ra_list[i] <= 2 * Deg(args.ra) + Arcsec(args.box_width)
        /\ \A i \in 1 .. Len(dec_list) :
              /\ 2 * dec_list[i] >= 2 * Deg(args.dec) - Arcsec(args.box_width)
              /\ 2 * dec_list[i] <= 2 * Deg(args.dec) + Arcsec(args.box_width)

C3_Witness ==
    /\ pc = "returned"
    /\ fn = "besancon"
    /\ args.coords = "galactic"
    /\ Len(ra_list) = 2
    /\ 2 * ra_list[1] = 2 * Deg(args.ra) - Arcsec(args.box_width)
    /\ ra_list[2] > ra_list[1]
    /\ dec_list[1] >= Deg(args.dec)

\* C4: for every star the model returns, K = V - (V-K), J = K + (J-K),
\* H = J - (J-H), L = J - (J-L), each stored in the column of its own band;
\* V=15.0, V-K=2.0, J-K=1.0, J-H=0.5, J-L=1.5 gives K=13.0, J=14.0, H=13.5, L=12.5.
C4_BandMagnitudes ==
    (pc = "returned" /\ fn = "besancon") =>
        /\ DOMAIN cat.magnitudes = { <<"Besancon", b>> : b \in {"j", "h", "k", "l"} }
        /\ \A b \in {"j", "h", "k", "l"} :
              Len(cat.magnitudes[<<"Besancon", b>>]) = Len(model)
        /\ \A i \in 1 .. Len(model) :
              LET K == model[i].V - model[i].VK
                  J == K + model[i].JK
                  H == J - model[i].JH
                  L == J - model[i].JL
              IN  /\ cat.magnitudes[<<"Besancon", "k">>][i] = K
                  /\ cat.magnitudes[<<"Besancon", "j">>][i] = J
                  /\ cat.magnitudes[<<"Besancon", "h">>][i] = H
                  /\ cat.magnitudes[<<"Besancon", "l">>][i] = L
        /\ \A i \in 1 .. Len(model) :
              model[i] = [V |-> 150, VK |-> 20, JK |-> 10, JH |-> 5, JL |-> 15] =>
                  /\ cat.magnitudes[<<"Besancon", "k">>][i] = 130
                  /\ cat.magnitudes[<<"Besancon", "j">>][i] = 140
                  /\ cat.magnitudes[<<"Besancon", "h">>][i] = 135
                  /\ cat.magnitudes[<<"Besancon", "l">>][i] = 125

C4_Witness ==
    /\ pc = "returned"
    /\ fn = "besancon"
    /\ Len(model) = 2
    /\ model[2] = [V |-> 150, VK |-> 20, JK |-> 10, JH |-> 5, JL |-> 15]
    /\ model[1] # model[2]
    /\ cat.magnitudes[<<"Besancon", "h">>][2] = 135

\* C5: besancon called with a coords value other than 'ra_dec' or 'galactic' raises
\* an invalid-argument error (ValueError) and returns no catalog.
C5_InvalidArgumentError ==
    (fn = "besancon" /\ args.coords \notin {"ra_dec", "galactic"}) =>
        /\ pc = "raised"
        /\ err = "ValueError"
        /\ ~cat.made

\* C6: the Irsa query is issued with no row limit that could truncate the result:
\* the service returns every source it holds inside the box.
C6_NoRowCap ==
    (fn = "get_2MASS_ptsrc_catalog" /\ Len(requests) >= 1) =>
        RowsReturned(held, requests[1]) = held

\* C7: generate_ra_dec called with N >= 0, ra_min <= ra_max and dec_min <= dec_max
\* returns two sequences of length exactly N, every RA within [ra_min, ra_max] and
\* every Dec within [dec_min, dec_max].
C7_CountAndBounds ==
    (pc = "returned" /\ fn = "generate_ra_dec") =>
        /\ Len(ra_list) = args.number_of_stars
        /\ Len(dec_list) = args.number_of_stars
        /\ \A i \in 1 .. Len(ra_list) :
              args.ra_min <= ra_list[i] /\ ra_list[i] <= args.ra_max
        /\ \A i \in 1 .. Len(dec_list) :
              args.dec_min <= dec_list[i] /\ dec_list[i] <= args.dec_max

\* a call in which one star's RA is the first draw of its range and its Dec is not,
\* and the other star's the other way round: the two are drawn apart
C7_Witness ==
    /\ pc = "returned"
    /\ fn = "generate_ra_dec"
    /\ args.number_of_stars = 2
    /\ args.ra_min < args.ra_max
    /\ args.dec_min < args.dec_max
    /\ ra_list[1] = args.ra_min
    /\ dec_list[1] > args.dec_min
    /\ ra_list[2] > args.ra_min
    /\ dec_list[2] = args.dec_min

\* C8: in the catalog get_2MASS_ptsrc_catalog returns, every source with RA and Dec
\* present is kept, and each magnitude column holds at that source's index the
\* source's own magnitude, or the fill value when it is missing; rows with a missing
\* RA or Dec contribute neither a position nor a magnitude entry.
C8_MagnitudesFollowSources ==
    (pc = "returned" /\ fn = "get_2MASS_ptsrc_catalog") =>
        /\ Len(cat.ra) = Cardinality(Present(query_table))
        /\ Len(cat.dec) = Cardinality(Present(query_table))
        /\ \A i \in Present(query_table) :
              /\ cat.ra[CatIndex(query_table, i)] = query_table[i].ra
              /\ cat.dec[CatIndex(query_table, i)] = query_table[i].dec
        /\ \A key \in MagKeys :
              /\ <<"2MASS", key>> \in DOMAIN cat.magnitudes
              /\ Len(cat.magnitudes[<<"2MASS", key>>]) = Cardinality(Present(query_table))
              /\ \A i \in Present(query_table) :
                    cat.magnitudes[<<"2MASS", key>>][CatIndex(query_table, i)] =
                        IF key \in query_table[i].mag_masked
                        THEN [m |-> 1, e |-> 20]
                        ELSE query_table[i].mag[key]

\* C9: a call of get_2MASS_ptsrc_catalog or besancon sends at most one request, to
\* its own service, and exactly one when it returns a catalog; when the request
\* fails the failure goes to the caller, with no second request and no catalog.
C9_OneRequestNoRetry ==
    /\ Len(requests) <= 1
    /\ \A i \in 1 .. Len(requests) :
          requests[i].service = IF fn = "besancon" THEN "Besancon" ELSE "Irsa"
    /\ (pc = "returned" /\ CatalogCall) =>
          (Len(requests) = 1 /\ err = "none" /\ cat.made)
    /\ (err = "ServiceError") => (pc = "raised" /\ Len(requests) = 1 /\ ~cat.made)
    /\ (pc \in {"irsa_wait", "bes_wait"}) => (Len(requests) = 1 /\ ~cat.made)

C9_Witness ==
    /\ pc = "raised"
    /\ fn = "get_2MASS_ptsrc_catalog"
    /\ err = "ServiceError"
    /\ Len(requests) = 1

\* C10: with an unrecognised coords value besancon fails before any request is sent
\* to the model service; in 'galactic' mode the two coordinates sent are exactly the
\* ra and dec arguments.
C10_NoRequestOnBadCoords ==
    (fn = "besancon") =>
        /\ (args.coords \notin {"ra_dec", "galactic"}) =>
              (requests = <<>> /\ pc = "raised" /\ err # "none")
        /\ (args.coords = "galactic" /\ pc # "raised") =>
              /\ Len(requests) = 1
              /\ requests[1].coord1 = args.ra
              /\ requests[1].coord2 = args.dec
        /\ (args.coords = "ra_dec" /\ pc # "raised") =>
              /\ Len(requests) = 1
              /\ requests[1].coord1 = IcrsToGalactic(args.ra, args.dec).l
              /\ requests[1].coord2 = IcrsToGalactic(args.ra, args.dec).b

C10_Witness ==
    /\ fn = "besancon"
    /\ args.coords = "equatorial"
    /\ pc = "raised"
    /\ requests = <<>>

====
